---- MODULE Spec2Model ----
(***************************************************************************)
(* Model of home-assistant-config/assets/js/dashboard.js: the class        *)
(* DeploymentDashboard, its startup sequence, its periodic refresh and the *)
(* aggregations it renders.                                                *)
(*                                                                         *)
(* Time is counted in minutes of local time.  A cycle is one run of init   *)
(* or refresh; cycle 0 is init, cycles 1..MaxInFlight are refresh runs     *)
(* that may be in flight at once.  One action is one turn of the event     *)
(* loop: the code that runs between two await points.                      *)
(***************************************************************************)
EXTENDS Integers, Sequences, FiniteSets, TLC

VARIABLES
    deployments,   \* this.deployments
    charts,        \* this.charts: trend and status, <<>> while undefined
    liveCharts,    \* per canvas, the Chart instances constructed and not destroyed
    stats,         \* textContent of the four stat elements, <<>> while never written
    table,         \* innerHTML of deploymentsTableBody
    lastUpdated,   \* textContent of lastUpdated, <<>> while never written
    timerArmed,    \* setInterval has been called
    pc,            \* per cycle, the await point it is suspended at
    resp,          \* per cycle, what its fetch delivered
    lastRun,       \* the latest render pass: its cycle, the steps it ran in order,
                   \* and the error its catch block logged, <<>> if none
    present,       \* the element ids the page provides
    now            \* the clock, in minutes

vars == <<deployments, charts, liveCharts, stats, table, lastUpdated, timerArmed,
          pc, resp, lastRun, present, now>>

-----------------------------------------------------------------------------
(* Bounds *)

MaxInFlight == 2     \* refresh cycles that can be in flight at once
MaxLen == 3          \* longest record sequence drawn from RecordPool
MaxTotal == 40       \* longest success/failure record sequence

(* Program constants *)

TrendDays == 30
TableLimit == 20
CommitPrefix == 7
MinutesPerHour == 60
HoursPerDay == 24
MinutesPerDay == MinutesPerHour * HoursPerDay

-----------------------------------------------------------------------------
(* Small helpers *)

Min(a, b) == IF a < b THEN a ELSE b

\* F applied to the value of e, with e evaluated once
Bind(e, F(_)) == CHOOSE r \in {F(v) : v \in {e}} : TRUE

RECURSIVE SumSeq(_)
SumSeq(s) == IF s = <<>> THEN 0 ELSE Head(s) + SumSeq(Tail(s))

RECURSIVE Pow2(_)
Pow2(n) == IF n = 0 THEN 1 ELSE 2 * Pow2(n - 1)

RECURSIVE BitLength(_)
BitLength(n) == IF n = 0 THEN 0 ELSE 1 + BitLength(n \div 2)

-----------------------------------------------------------------------------
(* IEEE-754 double arithmetic, as far as updateStats needs it.             *)
(* A double x > 0 is held exactly as (hi * 2^36 + mid * 2^18 + lo) * 2^-e  *)
(* with 53 significant bits: hi in 2^16 .. 2^17 - 1, mid and lo below 2^18.*)

LimbBits == 18
HiBits == 17
Limb == Pow2(LimbBits)

RECURSIVE Normalise(_, _, _)
\* smallest k with s * 2^k >= t, returned with the scaled numerator
Normalise(s, t, k) ==
    IF s >= t THEN [num |-> s, k |-> k] ELSE Normalise(2 * s, t, k + 1)

\* round to nearest, ties to even, given whether to round up
RoundUp(x, up) ==
    LET lo == IF up THEN x.lo + 1 ELSE x.lo
        mid == x.mid + (lo \div Limb)
        hi == x.hi + ((x.mid + (lo \div Limb)) \div Limb)
    IN IF hi = Pow2(HiBits)
       THEN [hi |-> Pow2(HiBits - 1), mid |-> 0, lo |-> 0, e |-> x.e - 1]
       ELSE [hi |-> hi, mid |-> mid % Limb, lo |-> lo % Limb, e |-> x.e]

RoundNearestEven(x, above, exactlyHalf) ==
    Bind(x, LAMBDA v : RoundUp(v, above \/ (exactlyHalf /\ v.lo % 2 = 1)))

\* one step of long division: quotient and remainder of r * 2^bits by t
DivStep(r, bits, t) ==
    [q |-> (r * Pow2(bits)) \div t, r |-> (r * Pow2(bits)) % t]

\* the double nearest to s / t, for integers 0 < s and 0 < t < 2^13
FloatDiv(s, t) ==
    Bind(Normalise(s, t, 0), LAMBDA n :
    Bind(DivStep(n.num - t, HiBits - 1, t), LAMBDA d1 :
    Bind(DivStep(d1.r, LimbBits, t), LAMBDA d2 :
    Bind(DivStep(d2.r, LimbBits, t), LAMBDA d3 :
        RoundNearestEven([hi |-> Pow2(HiBits - 1) + d1.q, mid |-> d2.q, lo |-> d3.q,
                          e |-> n.k + 2 * LimbBits + HiBits - 1],
                         2 * d3.r > t, 2 * d3.r = t)))))

\* p.hi * 2^36 + p.mid * 2^18 + p.lo with 53 + k significant bits, cut to 53
ShiftRight(p, k) ==
    LET d == Pow2(k)
        up == Pow2(LimbBits - k)
        dropped == p.lo % d
    IN RoundNearestEven(
           [hi |-> p.hi \div d,
            mid |-> (p.mid \div d) + ((p.hi % d) * up),
            lo |-> (p.lo \div d) + ((p.mid % d) * up),
            e |-> p.e - k],
           2 * dropped > d, 2 * dropped = d)

\* the double nearest to x * c, for a double x > 0 and an integer 0 < c < 2^7
FloatMulSmall(x, c) ==
    Bind(x, LAMBDA v :
    Bind(v.lo * c, LAMBDA lo :
    Bind((v.mid * c) + (lo \div Limb), LAMBDA mid :
    Bind((v.hi * c) + (mid \div Limb), LAMBDA hi :
        ShiftRight([hi |-> hi, mid |-> mid % Limb, lo |-> lo % Limb, e |-> v.e],
                   BitLength(hi) - HiBits)))))

\* Math.round of a double 0 < x < 2^16: nearest integer, ties towards +infinity
MathRound(x) ==
    LET f == x.e - 2 * LimbBits
    IN IF f > HiBits THEN 0
       ELSE (x.hi \div Pow2(f)) + ((x.hi \div Pow2(f - 1)) % 2)

\* Math.round((successful / total) * 100), for 0 <= successful <= total, 0 < total
SuccessRate(successful, total) ==
    IF successful = 0 THEN 0
    ELSE Bind(FloatMulSmall(FloatDiv(successful, total), 100), MathRound)

-----------------------------------------------------------------------------
(* Dates *)

\* Date.prototype.toDateString / toLocaleDateString: the local calendar day
toDateString(t) == t \div MinutesPerDay

\* formatDate: toLocaleDateString() + ' ' + toLocaleTimeString()
formatDate(timestamp) ==
    [date |-> timestamp \div MinutesPerDay, time |-> timestamp % MinutesPerDay]

\* formatTimeAgo, with the clock reading clock
formatTimeAgo(date, clock) ==
    LET diffInHours == (clock - date) \div MinutesPerHour
        diffInDays == diffInHours \div HoursPerDay
    IN IF diffInHours < 1 THEN [n |-> 0, text |-> "Less than an hour ago"]
       ELSE IF diffInHours < HoursPerDay
            THEN [n |-> diffInHours,
                  text |-> IF diffInHours > 1 THEN "hours ago" ELSE "hour ago"]
            ELSE [n |-> diffInDays,
                  text |-> IF diffInDays > 1 THEN "days ago" ELSE "day ago"]

Never == [n |-> 0, text |-> "Never"]

-----------------------------------------------------------------------------
(* The page and the snapshot documents the server can deliver *)

StatIds == <<"totalDeployments", "successRate", "lastDeployment", "activeDeployers">>

Surfaces ==
    {StatIds[i] : i \in 1..Len(StatIds)} \cup
    {"lastUpdated", "deploymentsTableBody", "deploymentTrendChart",
     "statusDistributionChart"}

\* the page provides every element, or lacks exactly one
Pages == {Surfaces} \cup {Surfaces \ {x} : x \in Surfaces}

Day0 == 40
Now0 == Day0 * MinutesPerDay + 10 * MinutesPerHour
Clocks == {Now0, Day0 * MinutesPerDay + 23 * MinutesPerHour + 55,
           (Day0 + 1) * MinutesPerDay + 10}

Record(ts, st, u) ==
    [timestamp |-> ts, status |-> st, commit |-> <<10, 11, 12, 1, 2, 3, 4, 13, 14>>,
     user |-> u, workflow_url |-> "https://github.com/run"]

RecordPool ==
    { Record(Now0 - 30, "success", "alice"),
      Record(Day0 * MinutesPerDay + MinutesPerHour, "failure", "bob"),
      Record((Day0 - 29) * MinutesPerDay, "cancelled", "alice"),
      Record((Day0 - 30) * MinutesPerDay + 23 * MinutesPerHour, "success", "carol"),
      Record((Day0 - 30) * MinutesPerDay, "skipped", "bob") }

\* a record the producer wrote without its commit field
NoCommitRecord ==
    [timestamp |-> Now0 - 90, status |-> "failure", user |-> "bob",
     workflow_url |-> "https://github.com/run"]

RECURSIVE Repeat(_, _)
Repeat(r, n) == IF n = 0 THEN <<>> ELSE <<r>> \o Repeat(r, n - 1)

\* successful records with status success, then total - successful failures
Tally(successful, total) ==
    Repeat(Record(Now0 - 30, "success", "alice"), successful) \o
    Repeat(Record(Now0 - 30, "failure", "bob"), total - successful)

PoolSeqs == UNION {[1..n -> RecordPool] : n \in 0..MaxLen}

TallySeqs == UNION {{Tally(k, n) : k \in 0..n} : n \in 1..MaxTotal}

\* what response.json() resolves with, per body
Document(body) ==
    CASE body = "docA" ->
           [deployments |-> <<Record(Now0 - 30, "success", "alice"),
                              Record(Now0 - 3 * MinutesPerDay, "failure", "bob")>>]
      [] body = "docB" -> [deployments |-> <<NoCommitRecord>>]
      [] OTHER -> [generated |-> "never"]

Docs == {"docA", "docB"}
Bodies == {"badjson", "nofield"} \cup Docs
FetchOutcomes == {"reject", "notok"} \cup Bodies
FailureOutcomes == {"reject", "notok", "badjson", "nofield"}

InitCycle == 0
RefreshCycles == 1..MaxInFlight
Cycles == {InitCycle} \cup RefreshCycles

-----------------------------------------------------------------------------
(* Aggregations *)

\* updateStats, lines 53-60: the four values, for the clock reading clock
StatValues(deps, clock) ==
    LET totalDeployments == Len(deps)
        successfulDeployments ==
            Len(SelectSeq(deps, LAMBDA d : d.status = "success"))
    IN [totalDeployments |-> totalDeployments,
        successRate |-> IF totalDeployments > 0
                        THEN SuccessRate(successfulDeployments, totalDeployments)
                        ELSE 0,
        lastDeployment |-> IF Len(deps) > 0
                           THEN formatTimeAgo(deps[1].timestamp, clock)
                           ELSE Never,
        activeDeployers |-> Cardinality({deps[i].user : i \in 1..Len(deps)})]

RECURSIVE GroupByDate(_, _)
\* the forEach of createTrendChart: deploymentsByDate, keyed by toDateString
GroupByDate(recent, byDate) ==
    IF recent = <<>> THEN byDate
    ELSE LET date == toDateString(Head(recent).timestamp)
             seeded == IF date \in DOMAIN byDate THEN byDate
                       ELSE [k \in DOMAIN byDate \cup {date} |->
                                IF k = date THEN 0 ELSE byDate[k]]
         IN Bind([seeded EXCEPT ![date] = @ + 1],
                 LAMBDA counted : GroupByDate(Tail(recent), counted))

TrendSeriesOffByOne(deps, clock) ==
    LET thirtyDaysAgo == clock - TrendDays * MinutesPerDay
        recentDeployments ==
            SelectSeq(deps, LAMBDA d : d.timestamp >= thirtyDaysAgo)
        DateOf(k) == clock - (TrendDays - k + 1) * MinutesPerDay
    IN Bind(GroupByDate(recentDeployments, <<>>), LAMBDA deploymentsByDate :
        [labels |-> [k \in 1..TrendDays |-> toDateString(DateOf(k))],
         data |-> [k \in 1..TrendDays |->
                     IF toDateString(DateOf(k)) \in DOMAIN deploymentsByDate
                     THEN deploymentsByDate[toDateString(DateOf(k))]
                     ELSE 0]])

\* createTrendChart, lines 87-113: labels and data of the trend series
TrendSeries(deps, clock) ==
    LET thirtyDaysAgo == clock - TrendDays * MinutesPerDay
        recentDeployments ==
            SelectSeq(deps, LAMBDA d : d.timestamp >= thirtyDaysAgo)
        DateOf(k) == clock - (TrendDays - k) * MinutesPerDay
    IN Bind(GroupByDate(recentDeployments, <<>>), LAMBDA deploymentsByDate :
        [labels |-> [k \in 1..TrendDays |-> toDateString(DateOf(k))],
         data |-> [k \in 1..TrendDays |->
                     IF toDateString(DateOf(k)) \in DOMAIN deploymentsByDate
                     THEN deploymentsByDate[toDateString(DateOf(k))]
                     ELSE 0]])

StatusCountsRest(deps) ==
    << Len(SelectSeq(deps, LAMBDA d : d.status = "success")),
       Len(SelectSeq(deps, LAMBDA d : d.status = "failure")),
       Len(SelectSeq(deps, LAMBDA d : d.status # "success" /\ d.status # "failure")) >>

\* createStatusChart, lines 150-154: success, failure, cancelled
StatusCounts(deps) ==
    << Len(SelectSeq(deps, LAMBDA d : d.status = "success")),
       Len(SelectSeq(deps, LAMBDA d : d.status = "failure")),
       Len(SelectSeq(deps, LAMBDA d : d.status = "cancelled")) >>

\* updateTable, lines 185-195: one row per record of the first TableLimit
TableRows(deps) ==
    LET recentDeployments == SubSeq(deps, 1, Min(Len(deps), TableLimit))
    IN [i \in 1..Len(recentDeployments) |->
          LET deployment == recentDeployments[i]
          IN [date |-> formatDate(deployment.timestamp),
              status |-> deployment.status,
              commit |-> SubSeq(deployment.commit, 1,
                                Min(CommitPrefix, Len(deployment.commit))),
              user |-> deployment.user,
              workflow_url |-> deployment.workflow_url]]

-----------------------------------------------------------------------------
(* Render steps.  A step maps the display state s to the display state     *)
(* after it; s.err holds the exception a step threw, <<>> if none.         *)

DisplayState ==
    [charts |-> charts, liveCharts |-> liveCharts, stats |-> stats,
     table |-> table, lastUpdated |-> lastUpdated, err |-> <<>>, log |-> <<>>]

NullSetError == "Cannot set properties of null"
NullReadError == "Cannot read properties of null (reading 'getContext')"
UndefinedReadError == "Cannot read properties of undefined (reading 'substring')"

Throw(s, message) == [s EXCEPT !.err = <<message>>]

\* sequencing inside a try block: a statement runs only if none before it threw
Then(Op(_), s) == Bind(s, LAMBDA v : IF v.err # <<>> THEN v ELSE Op(v))

\* a statement of init or refresh, recorded in the cycle's log
Run(name, Op(_), s) ==
    Bind(s, LAMBDA v :
        IF v.err # <<>> THEN v
        ELSE Bind(Op(v), LAMBDA r :
                [r EXCEPT !.log = Append(v.log, [step |-> name,
                                                 threw |-> r.err # <<>>])]))

\* lines 62-65: the four writes, in order, up to the first missing element
updateStats(s) ==
    LET missing == {i \in 1..Len(StatIds) : StatIds[i] \notin present}
        stop == IF missing = {} THEN Len(StatIds) + 1
                ELSE CHOOSE i \in missing : \A j \in missing : i <= j
        Written(v) == [s EXCEPT !.stats =
            [totalDeployments |-> IF 1 < stop THEN <<v.totalDeployments>>
                                  ELSE s.stats.totalDeployments,
             successRate |-> IF 2 < stop THEN <<v.successRate>>
                             ELSE s.stats.successRate,
             lastDeployment |-> IF 3 < stop THEN <<v.lastDeployment>>
                                ELSE s.stats.lastDeployment,
             activeDeployers |-> IF 4 < stop THEN <<v.activeDeployers>>
                                 ELSE s.stats.activeDeployers]]
    IN Bind(StatValues(deployments, now), LAMBDA v :
           IF missing = {} THEN Written(v) ELSE Throw(Written(v), NullSetError))

createTrendChart(s) ==
    IF "deploymentTrendChart" \notin present THEN Throw(s, NullReadError)
    ELSE Bind(TrendSeries(deployments, now), LAMBDA series :
            [s EXCEPT !.charts.trend = <<[type |-> "line", labels |-> series.labels,
                                             data |-> series.data, destroyed |-> FALSE]>>,
                         !.liveCharts.trend = @ + 1])

createStatusChart(s) ==
    IF "statusDistributionChart" \notin present THEN Throw(s, NullReadError)
    ELSE [s EXCEPT !.charts.status =
                       <<[type |-> "doughnut",
                          labels |-> <<"Success", "Failure", "Cancelled">>,
                          data |-> StatusCounts(deployments), destroyed |-> FALSE]>>,
                   !.liveCharts.status = @ + 1]

createCharts(s) == Then(createStatusChart, createTrendChart(s))

\* Chart.prototype.destroy on the instance stored under canvas
Destroy(s, canvas) ==
    IF s.charts[canvas] = <<>> \/ s.charts[canvas][1].destroyed THEN s
    ELSE [s EXCEPT !.charts[canvas] = <<[@[1] EXCEPT !.destroyed = TRUE]>>,
                   !.liveCharts[canvas] = @ - 1]

updateChartsNoDestroy(s) == createCharts(s)

updateCharts(s) ==
    Bind(Destroy(s, "trend"), LAMBDA t : Bind(Destroy(t, "status"), createCharts))

Placeholder ==
    [kind |-> "message", text |-> <<"No deployment data available">>, rows |-> <<>>]

updateTable(s) ==
    LET recentDeployments ==
            SubSeq(deployments, 1, Min(Len(deployments), TableLimit))
    IN IF Len(deployments) = 0
       THEN IF "deploymentsTableBody" \in present
            THEN [s EXCEPT !.table = Placeholder]
            ELSE Throw(s, NullSetError)
       ELSE IF \E i \in 1..Len(recentDeployments) :
                    "commit" \notin DOMAIN recentDeployments[i]
            THEN Throw(s, UndefinedReadError)
            ELSE IF "deploymentsTableBody" \in present
                 THEN [s EXCEPT !.table = [kind |-> "rows", text |-> <<>>,
                                           rows |-> TableRows(deployments)]]
                 ELSE Throw(s, NullSetError)

updateLastUpdated(s) ==
    IF "lastUpdated" \in present THEN [s EXCEPT !.lastUpdated = <<now>>]
    ELSE Throw(s, NullSetError)

showErrorNoPrefix(s, message) ==
    IF "deploymentsTableBody" \in present
    THEN [s EXCEPT !.table = [kind |-> "message", text |-> <<message>>, rows |-> <<>>]]
    ELSE Throw(s, NullSetError)

showError(s, message) ==
    IF "deploymentsTableBody" \in present
    THEN [s EXCEPT !.table = [kind |-> "message", text |-> <<"Error: ", message>>,
                              rows |-> <<>>]]
    ELSE Throw(s, NullSetError)

\* init, lines 11-14
InitRender(s) ==
    Run("timestamp", updateLastUpdated,
        Run("table", updateTable,
            Run("charts", createCharts,
                Run("stats", updateStats, s))))

RefreshRenderTableFirst(s) ==
    Run("timestamp", updateLastUpdated,
        Run("charts", updateCharts,
            Run("table", updateTable,
                Run("stats", updateStats, s))))

\* refresh, lines 43-46
RefreshRender(s) ==
    Run("timestamp", updateLastUpdated,
        Run("table", updateTable,
            Run("charts", updateCharts,
                Run("stats", updateStats, s))))

\* the display variables take the values of the display state s
Display(s) ==
    /\ charts' = s.charts
    /\ liveCharts' = s.liveCharts
    /\ stats' = s.stats
    /\ table' = s.table
    /\ lastUpdated' = s.lastUpdated

-----------------------------------------------------------------------------
(* loadDeployments *)

loadDeploymentsCatchKeep(old) == old

\* lines 34-37: the catch block
loadDeploymentsCatch(old) == <<>>

loadDeploymentsAssignAppend(old, data) ==
    IF "deployments" \in DOMAIN data THEN old \o data.deployments ELSE old

\* line 33: data.deployments || []
loadDeploymentsAssign(old, data) ==
    IF "deployments" \in DOMAIN data THEN data.deployments ELSE <<>>

\* lines 28-31: the fetch settles; a rejection or a non-OK response ends the load
FetchSettle(c) ==
    /\ pc[c] = "fetch"
    /\ \E outcome \in FetchOutcomes :
         /\ resp' = [resp EXCEPT ![c] = outcome]
         /\ IF outcome \in {"reject", "notok"}
            THEN /\ deployments' = loadDeploymentsCatch(deployments)
                 /\ pc' = [pc EXCEPT ![c] = "resume"]
            ELSE /\ pc' = [pc EXCEPT ![c] = "json"]
                 /\ UNCHANGED deployments
    /\ UNCHANGED <<charts, liveCharts, stats, table, lastUpdated, timerArmed,
                   lastRun, present, now>>

\* lines 32-33: response.json() settles
JsonSettle(c) ==
    /\ pc[c] = "json"
    /\ deployments' = IF resp[c] = "badjson" THEN loadDeploymentsCatch(deployments)
                      ELSE loadDeploymentsAssign(deployments, Document(resp[c]))
    /\ pc' = [pc EXCEPT ![c] = "resume"]
    /\ UNCHANGED <<charts, liveCharts, stats, table, lastUpdated, timerArmed,
                   resp, lastRun, present, now>>

-----------------------------------------------------------------------------
(* init and refresh *)

InitErrorMessage == "Failed to load deployment data"

\* lines 11-23: init resumes after its load
InitResume ==
    /\ pc[InitCycle] = "resume"
    /\ \E s \in {InitRender(DisplayState)} :
         IF s.err = <<>>
         THEN /\ Display(s)
              /\ timerArmed' = TRUE
              /\ pc' = [pc EXCEPT ![InitCycle] = "done"]
              /\ lastRun' = [cycle |-> InitCycle, log |-> s.log, err |-> <<>>]
         ELSE \E shown \in {showError([s EXCEPT !.err = <<>>], InitErrorMessage)} :
              /\ Display(shown)
              /\ pc' = [pc EXCEPT ![InitCycle] =
                           IF shown.err = <<>> THEN "failed" ELSE "crashed"]
              /\ lastRun' = [cycle |-> InitCycle, log |-> s.log, err |-> s.err]
              /\ UNCHANGED timerArmed
    /\ resp' = [resp EXCEPT ![InitCycle] = "none"]
    /\ UNCHANGED <<deployments, present, now>>

\* the refresh cycle the next timer callback runs as: cycles not in flight are
\* interchangeable, the first of them stands for all
NextCycle(c) ==
    /\ c \in RefreshCycles
    /\ pc[c] = "idle"
    /\ \A d \in RefreshCycles : d < c => pc[d] # "idle"

TimerFireOnce ==
    /\ timerArmed
    /\ \E c \in RefreshCycles :
         /\ NextCycle(c)
         /\ pc' = [pc EXCEPT ![c] = "fetch"]
    /\ timerArmed' = FALSE
    /\ UNCHANGED <<deployments, charts, liveCharts, stats, table, lastUpdated,
                   resp, lastRun, present, now>>

\* lines 17-19 and 40-42: the interval elapses; refresh starts its load
TimerFire ==
    /\ timerArmed
    /\ \E c \in RefreshCycles :
         /\ NextCycle(c)
         /\ pc' = [pc EXCEPT ![c] = "fetch"]
    /\ UNCHANGED <<deployments, charts, liveCharts, stats, table, lastUpdated,
                   timerArmed, resp, lastRun, present, now>>

RefreshResumeYielding(c) ==
    /\ c \in RefreshCycles
    /\ \/ /\ pc[c] = "resume"
          /\ \E s \in {Run("charts", updateCharts,
                           Run("stats", updateStats, DisplayState))} :
                /\ Display(s)
                /\ lastRun' = [cycle |-> c, log |-> s.log, err |-> s.err]
                /\ pc' = [pc EXCEPT ![c] = IF s.err = <<>> THEN "yield" ELSE "idle"]
                /\ resp' = [resp EXCEPT ![c] = IF s.err = <<>> THEN @ ELSE "none"]
       \/ /\ pc[c] = "yield"
          /\ \E s \in {Run("timestamp", updateLastUpdated,
                           Run("table", updateTable,
                               [DisplayState EXCEPT !.log =
                                   <<[step |-> "stats", threw |-> FALSE],
                                     [step |-> "charts", threw |-> FALSE]>>]))} :
                /\ Display(s)
                /\ lastRun' = [cycle |-> c, log |-> s.log, err |-> s.err]
                /\ pc' = [pc EXCEPT ![c] = "idle"]
                /\ resp' = [resp EXCEPT ![c] = "none"]
    /\ UNCHANGED <<deployments, timerArmed, present, now>>

\* lines 43-49: refresh resumes after its load
RefreshResume(c) ==
    /\ c \in RefreshCycles
    /\ pc[c] = "resume"
    /\ \E s \in {RefreshRender(DisplayState)} :
         /\ Display(s)
         /\ lastRun' = [cycle |-> c, log |-> s.log, err |-> s.err]
    /\ pc' = [pc EXCEPT ![c] = "idle"]
    /\ resp' = [resp EXCEPT ![c] = "none"]
    /\ UNCHANGED <<deployments, timerArmed, present, now>>

-----------------------------------------------------------------------------
(* The page: constructor, then the event loop *)

InitialTable == [kind |-> "initial", text |-> <<>>, rows |-> <<>>]

NoStats ==
    [totalDeployments |-> <<>>, successRate |-> <<>>, lastDeployment |-> <<>>,
     activeDeployers |-> <<>>]

NoRun == [cycle |-> -1, log |-> <<>>, err |-> <<>>]

\* lines 2-5 and 228-230, up to init's first await
Constructed ==
    /\ charts = [trend |-> <<>>, status |-> <<>>]
    /\ liveCharts = [trend |-> 0, status |-> 0]
    /\ stats = NoStats
    /\ table = InitialTable
    /\ lastUpdated = <<>>
    /\ timerArmed = FALSE
    /\ resp = [c \in Cycles |-> "none"]
    /\ lastRun = NoRun

Init ==
    /\ Constructed
    /\ deployments = <<>>
    /\ pc = [c \in Cycles |-> IF c = InitCycle THEN "fetch" ELSE "idle"]
    /\ present \in Pages
    /\ now = Now0

Next ==
    \/ \E c \in Cycles : FetchSettle(c)
    \/ \E c \in Cycles : JsonSettle(c)
    \/ InitResume
    \/ TimerFire
    \/ \E c \in RefreshCycles : RefreshResume(c)

Spec == Init /\ [][Next]_vars

\* a cycle in flight moves on: its fetch or its JSON decode settles, or it resumes
Progress ==
    \/ \E c \in Cycles : FetchSettle(c) \/ JsonSettle(c)
    \/ InitResume
    \/ \E c \in RefreshCycles : RefreshResume(c)

\* the interval timer keeps firing, and the event loop runs what is ready
FairSpec == Spec /\ WF_vars(TimerFire) /\ WF_vars(Progress)

-----------------------------------------------------------------------------
(* The aggregations on their own: a dashboard that holds an arbitrary      *)
(* record sequence, each aggregation applied once.                         *)

AggregateInit ==
    /\ Constructed
    /\ deployments \in PoolSeqs \cup TallySeqs
    /\ pc = [c \in Cycles |-> "idle"]
    /\ present = Surfaces
    /\ now \in Clocks

Apply(Op(_)) ==
    /\ pc[InitCycle] = "idle"
    /\ \E s \in {Op(DisplayState)} :
         /\ Display(s)
         /\ lastRun' = [lastRun EXCEPT !.err = s.err]
    /\ UNCHANGED <<deployments, timerArmed, pc, resp, present, now>>

ApplyUpdateStats == stats = NoStats /\ Apply(updateStats)
ApplyCreateTrendChart == charts.trend = <<>> /\ Apply(createTrendChart)
ApplyCreateStatusChart == charts.status = <<>> /\ Apply(createStatusChart)
ApplyUpdateTable == table = InitialTable /\ Apply(updateTable)

AggregateNext ==
    \/ ApplyUpdateStats
    \/ ApplyCreateTrendChart
    \/ ApplyCreateStatusChart
    \/ ApplyUpdateTable

AggregateSpec == AggregateInit /\ [][AggregateNext]_vars

-----------------------------------------------------------------------------
(* Properties *)

InFlight(c) == pc[c] \in {"fetch", "json", "resume"}
Loading(c) == pc[c] \in {"fetch", "json"}
Rendering(c) == pc[c] = "resume" /\ pc'[c] # "resume"
StepsOf(l) == [i \in 1..Len(l) |-> l[i].step]
RenderOrder == <<"stats", "charts", "table", "timestamp">>
CountStatus(deps, st) == Cardinality({i \in 1..Len(deps) : deps[i].status = st})
ErrorRow(message) ==
    [kind |-> "message", text |-> <<"Error: ", message>>, rows |-> <<>>]
EmptyStats ==
    [totalDeployments |-> <<0>>, successRate |-> <<0>>, lastDeployment |-> <<Never>>,
     activeDeployers |-> <<0>>]
RanAll(c) ==
    lastRun.cycle = c /\ lastRun.err = <<>> /\ Len(lastRun.log) = Len(RenderOrder)

\* C1: whatever makes the load fail (rejected fetch, non-OK response, JSON decode
\* failure, document without a deployments field), the load ends normally: its
\* caller resumes after the await and not in its catch block, the sequence is
\* empty and the load writes nothing to the table; a render pass that resumes
\* after such a load on the empty sequence writes total 0, rate 0, last
\* deployment Never, deployers 0.
C1_LoadFallsBackToEmpty ==
    [][\A c \in Cycles :
         /\ (Loading(c) /\ ~Loading(c)' /\ resp'[c] \in FailureOutcomes)
               => /\ pc'[c] = "resume"
                  /\ deployments' = <<>>
                  /\ table' = table
                  /\ lastRun' = lastRun
         /\ (pc[c] = "fetch" /\ resp'[c] \in {"reject", "notok"}) => ~Loading(c)'
         /\ (Rendering(c) /\ resp[c] \in FailureOutcomes
               /\ deployments = <<>> /\ present = Surfaces)
               => stats' = EmptyStats /\ lastRun'.err = <<>>
    ]_vars

C1_Witness ==
    \E c \in RefreshCycles :
        /\ pc[c] = "resume"
        /\ resp[c] \in FailureOutcomes
        /\ deployments = <<>>
        /\ stats.totalDeployments = <<2>>
        /\ table.kind = "rows"

\* C2 as stated: an exception raised by init's render steps is caught and the
\* table body becomes one row reading "Error: " plus that exception's message.
C2_Original ==
    (lastRun.cycle = InitCycle /\ lastRun.err # <<>>) =>
        pc[InitCycle] = "failed" /\ table = ErrorRow(lastRun.err[1])

\* C2 amended: an exception raised by init's render steps is caught and logged,
\* and the table body becomes one row reading "Error: Failed to load deployment
\* data", whatever the exception's message; when the page has no table body
\* element showError throws in its turn and the table is left as it was.
C2_InitFailureShowsFixedMessage ==
    lastRun.cycle = InitCycle =>
        /\ lastRun.err # <<>> <=> \E i \in 1..Len(lastRun.log) : lastRun.log[i].threw
        /\ lastRun.err # <<>> <=> pc[InitCycle] \in {"failed", "crashed"}
        /\ lastRun.err # <<>> =>
               IF "deploymentsTableBody" \in present
               THEN pc[InitCycle] = "failed" /\ table = ErrorRow(InitErrorMessage)
               ELSE pc[InitCycle] = "crashed" /\ table = InitialTable

C2_Witness ==
    /\ pc[InitCycle] = "failed"
    /\ lastRun.err = <<UndefinedReadError>>
    /\ table = ErrorRow(InitErrorMessage)

\* C3: each canvas carries at most one chart that has not been destroyed, and
\* that chart is the one this.charts holds for the canvas, also when refresh
\* cycles overlap.
C3_OneLiveChartPerCanvas ==
    \A canvas \in {"trend", "status"} :
        /\ liveCharts[canvas] <= 1
        /\ liveCharts[canvas] = 1 =>
               charts[canvas] # <<>> /\ ~charts[canvas][1].destroyed

C3_Witness ==
    \E c, d \in RefreshCycles :
        /\ c # d
        /\ RanAll(c)
        /\ pc[d] = "resume"
        /\ pc[c] = "json"
        /\ stats.totalDeployments = <<2>>
        /\ liveCharts = [trend |-> 1, status |-> 1]

\* C4 as stated: once a cycle has failed, be it a load that fell back or a render
\* failure caught by init, the timer is armed (so that a next refresh follows).
C4_Original ==
    pc[InitCycle] \in {"done", "failed", "crashed"} => timerArmed

RefreshResuming == \E c \in RefreshCycles : pc[c] = "resume"
FailureStep(c) ==
    \/ Loading(c) /\ ~Loading(c)' /\ resp'[c] \in FailureOutcomes
    \/ Rendering(c) /\ lastRun'.err # <<>>

\* C4 amended: a step in which a cycle fails starts no load (no immediate retry);
\* the timer is armed exactly when init has run to its end without a render
\* failure, also when its load fell back to empty, and is never disarmed; once
\* it is armed a refresh cycle completes its load and resumes to render again
\* and again, whatever failed before.  After a render failure caught by init the
\* timer is not armed and no refresh cycle ever runs.
C4_NextRefreshIsTheRetry ==
    /\ [][\A c \in Cycles : FailureStep(c) =>
             \A d \in Cycles : pc'[d] = "fetch" => pc[d] = "fetch"]_vars
    /\ [][timerArmed => timerArmed']_vars
    /\ [](timerArmed <=> pc[InitCycle] = "done")
    /\ [](pc[InitCycle] \in {"failed", "crashed"} =>
             lastRun.cycle = InitCycle /\ \A c \in RefreshCycles : pc[c] = "idle")
    /\ [](timerArmed => <>RefreshResuming)

C4_Witness ==
    \E c \in RefreshCycles :
        /\ lastRun.cycle \in RefreshCycles /\ lastRun.err # <<>>
        /\ pc[c] = "resume" /\ resp[c] \in FailureOutcomes

\* C5: render steps run only in the step in which a cycle resumes after its
\* load has completed; the steps of a pass are stats, charts, table, timestamp
\* in that order; no step follows one that threw; a pass that ended without an
\* exception ran all four.
C5_LoadThenRenderInOrder ==
    /\ [](/\ Len(lastRun.log) <= Len(RenderOrder)
          /\ StepsOf(lastRun.log) = SubSeq(RenderOrder, 1, Len(lastRun.log))
          /\ \A i \in 1..(Len(lastRun.log) - 1) : ~lastRun.log[i].threw
          /\ (lastRun.cycle \in Cycles /\ lastRun.err = <<>>)
                => Len(lastRun.log) = Len(RenderOrder)
          /\ lastRun.err # <<>> => lastRun.log[Len(lastRun.log)].threw)
    /\ [][<<lastRun, stats, charts, liveCharts, table, lastUpdated>>' #
              <<lastRun, stats, charts, liveCharts, table, lastUpdated>>
            => \E c \in Cycles : Rendering(c) /\ ~InFlight(c)' /\ lastRun'.cycle = c]_vars

C5_Witness ==
    /\ lastRun.cycle \in RefreshCycles
    /\ StepsOf(lastRun.log) = <<"stats", "charts", "table">>
    /\ lastRun.log[3].threw
    /\ lastUpdated # <<>>

SnapshotArrays == {Document(b).deployments : b \in Docs}

\* C6: the sequence held is empty or the deployments array of one snapshot, and
\* it changes only when a load completes, to that load's snapshot array or to
\* empty, whatever was held before and whatever other cycles are in flight.
C6_WholesaleReplacement ==
    /\ [](deployments \in {<<>>} \cup SnapshotArrays)
    /\ [][\A c \in Cycles : (Loading(c) /\ ~Loading(c)') =>
             deployments' = IF resp'[c] \in Docs THEN Document(resp'[c]).deployments
                            ELSE <<>>]_vars
    /\ [][deployments' # deployments => \E c \in Cycles : Loading(c) /\ ~Loading(c)']_vars

C6_Witness ==
    \E c, d \in RefreshCycles :
        /\ c # d
        /\ pc[c] = "resume" /\ resp[c] = "docA"
        /\ pc[d] = "json" /\ resp[d] = "docB"
        /\ stats.totalDeployments = <<1>>
        /\ deployments = Document("docA").deployments

\* round(100 * successful / total), halves rounded up, on the exact quotient
ExactRate(successful, total) == (200 * successful + total) \div (2 * total)

\* C7: the success rate written is 0 for the empty sequence and otherwise
\* round(100 * successCount / total), an integer from 0 to 100.
C7_Original ==
    stats.successRate # <<>> =>
        /\ stats.successRate[1] \in 0..100
        /\ stats.successRate[1] =
               IF deployments = <<>> THEN 0
               ELSE ExactRate(CountStatus(deployments, "success"), Len(deployments))

\* C8: the trend series has 30 points, one per calendar day, the oldest day
\* first and today last; each point counts the records whose timestamp falls on
\* that local day, at whatever time of day; a record more than 30 days old is
\* counted in no point.
C8_TrendSeries ==
    charts.trend # <<>> =>
        LET chart == charts.trend[1]
            today == now \div MinutesPerDay
        IN /\ Len(chart.data) = 30 /\ Len(chart.labels) = 30
           /\ \A k \in 1..30 : chart.labels[k] = today - (30 - k)
           /\ \A k \in 1..30 :
                chart.data[k] =
                    Cardinality({i \in 1..Len(deployments) :
                        deployments[i].timestamp \div MinutesPerDay = chart.labels[k]})
           /\ \A i \in 1..Len(deployments) :
                now - deployments[i].timestamp > 30 * MinutesPerDay =>
                    \A k \in 1..30 :
                        chart.labels[k] # deployments[i].timestamp \div MinutesPerDay

C8_Witness ==
    /\ charts.trend # <<>>
    /\ charts.trend[1].data[TrendDays] = 2
    /\ \E i \in 1..Len(deployments) :
          now - deployments[i].timestamp > TrendDays * MinutesPerDay

Recognised == {"success", "failure", "cancelled"}

\* C9: the three status counts add up to at most the number of records, and to
\* exactly that number if and only if every record's status is success, failure
\* or cancelled.
C9_StatusCounts ==
    charts.status # <<>> =>
        LET sum == SumSeq(charts.status[1].data)
        IN /\ Len(charts.status[1].data) = 3
           /\ sum <= Len(deployments)
           /\ sum = Len(deployments) <=>
                  \A i \in 1..Len(deployments) : deployments[i].status \in Recognised

C9_Witness ==
    /\ charts.status # <<>>
    /\ charts.status[1].data = <<1, 1, 0>>
    /\ Len(deployments) = 3

\* the stats, both charts and the table show one and the same sequence deps
ShowSameSequence(st, ch, tb, deps) ==
    /\ st.totalDeployments = <<Len(deps)>>
    /\ st.lastDeployment # <<Never>> <=> deps # <<>>
    /\ ch.trend # <<>> /\ ~ch.trend[1].destroyed
    /\ ch.status # <<>> /\ ~ch.status[1].destroyed
    /\ \A k \in 1..3 :
          ch.status[1].data[k] = CountStatus(deps, <<"success", "failure", "cancelled">>[k])
    /\ SumSeq(ch.trend[1].data) =
          Cardinality({i \in 1..Len(deps) :
              /\ deps[i].timestamp \div MinutesPerDay > now \div MinutesPerDay - TrendDays
              /\ deps[i].timestamp \div MinutesPerDay <= now \div MinutesPerDay})
    /\ IF deps = <<>> THEN tb = Placeholder
       ELSE /\ tb.kind = "rows"
            /\ Len(tb.rows) = Min(Len(deps), TableLimit)
            /\ \A i \in 1..Len(tb.rows) :
                  tb.rows[i].status = deps[i].status /\ tb.rows[i].user = deps[i].user

\* C10: a render pass is one step: while a cycle renders, the sequence does not
\* change and no other cycle moves, and a pass that ends without an exception
\* leaves stats, both charts and the table all showing the sequence held when
\* the pass began, also when other cycles are in flight.
C10_RenderPassesDoNotInterleave ==
    [][\A c \in Cycles : Rendering(c) =>
          /\ deployments' = deployments
          /\ \A d \in Cycles \ {c} : pc'[d] = pc[d]
          /\ pc'[c] \in {"idle", "done", "failed", "crashed"}
          /\ lastRun'.err = <<>> => ShowSameSequence(stats', charts', table', deployments)
    ]_vars

C10_Witness ==
    \E c, d \in RefreshCycles :
        /\ c # d
        /\ RanAll(c)
        /\ stats.totalDeployments = <<2>>
        /\ pc[d] = "resume" /\ resp[d] \in FailureOutcomes
        /\ deployments = <<>>

====
